---- MODULE Spec2Model ----
(***************************************************************************)
(* A model of contact_crawler.py: the extraction pipeline of crawl_url     *)
(* over a parsed HTML tree.                                                *)
(*                                                                         *)
(* Representation.  A document is a sequence of element records in         *)
(* document (pre-)order; doc[n].parent is the index of the containing      *)
(* element, 0 for the root.  An element's own text node, when it has one,  *)
(* is its first child and is held in the field text.  Every string of the  *)
(* program (a text, an href, a style value, a name) is a sequence of       *)
(* lexical tokens; a token is a run of characters that the program's       *)
(* patterns either take whole or not at all (a word, a blank, a colon, an  *)
(* address, a number).  Confidences are in hundredths.  Comment nodes are   *)
(* left out: _visible_texts removes them before it reads the text nodes,   *)
(* and nothing else reads them.                                            *)
(***************************************************************************)
EXTENDS Integers, Sequences, FiniteSets, TLC

VARIABLES doc, live, pc, run, socials, emails, phones, names, notes, first

vars == <<doc, live, pc, run, socials, emails, phones, names, notes, first>>

(***************************************************************************)
(* Strings as token sequences                                              *)
(***************************************************************************)

\* str.lower(), on the tokens that have upper-case letters.
Lower(t) ==
  CASE t = "DISPLAY" -> "display"
    [] t = "None" -> "none"
    [] t = "MAILTO" -> "mailto"
    [] t = "Tel" -> "tel"
    [] t = "JavaScript" -> "javascript"
    [] t = "LinkedIn.com" -> "linkedin.com"
    [] OTHER -> t

LowerSeq(s) == [i \in 1..Len(s) |-> Lower(s[i])]

\* The blanks str.strip() and str.split() remove.
IsSpace(t) == t \in {" ", "\t"}

RECURSIVE LStrip(_)
LStrip(s) == IF s # <<>> /\ IsSpace(Head(s)) THEN LStrip(Tail(s)) ELSE s

RECURSIVE RStrip(_)
RStrip(s) ==
  IF s # <<>> /\ IsSpace(s[Len(s)]) THEN RStrip(SubSeq(s, 1, Len(s) - 1)) ELSE s

\* str.strip()
Strip(s) == RStrip(LStrip(s))

\* pat in s
Contains(s, pat) ==
  \E i \in 0..(Len(s) - Len(pat)) : SubSeq(s, i + 1, i + Len(pat)) = pat

\* s.startswith(pat)
StartsWith(s, pat) == Len(s) >= Len(pat) /\ SubSeq(s, 1, Len(pat)) = pat

\* The index of the first token of s equal to t, Len(s) + 1 when there is none.
FirstIndex(s, t) ==
  IF \E i \in 1..Len(s) : s[i] = t
  THEN CHOOSE i \in 1..Len(s) : s[i] = t /\ \A j \in 1..(i - 1) : s[j] # t
  ELSE Len(s) + 1

\* href.split(':', 1)[1].split('?')[0], for an href that holds a colon.
AfterScheme(href) ==
  LET rest == SubSeq(href, FirstIndex(href, ":") + 1, Len(href))
  IN  SubSeq(rest, 1, FirstIndex(rest, "?") - 1)

RECURSIVE Concat(_)
Concat(ss) == IF ss = <<>> THEN <<>> ELSE Head(ss) \o Concat(Tail(ss))

(***************************************************************************)
(* The tree                                                                *)
(***************************************************************************)

Ids(d) == [i \in 1..Len(d) |-> i]

\* elem.parents, without the parser's root object (which has no attribute).
RECURSIVE Ancestors(_, _)
Ancestors(d, n) ==
  IF d[n].parent = 0 THEN {} ELSE {d[n].parent} \cup Ancestors(d, d[n].parent)

\* What Tag.extract() takes out of the tree: the element and all below it.
Subtree(d, n) == {m \in 1..Len(d) : m = n \/ n \in Ancestors(d, m)}

\* soup.find_all(tag), in document order.
FindAll(d, L, tag) == SelectSeq(Ids(d), LAMBDA n : n \in L /\ d[n].tag = tag)

\* The tree without the subtrees of the elements of the given tags.
Without(d, L, tags) ==
  L \ UNION {Subtree(d, n) : n \in {m \in L : d[m].tag \in tags}}

(***************************************************************************)
(* _is_hidden                                                              *)
(***************************************************************************)

\* 'display:none' in style.replace(' ', '').lower()
StyleHides(style) ==
  Contains(LowerSeq(SelectSeq(style, LAMBDA t : t # " ")),
           <<"display", ":", "none">>)

\* The three attribute tests, made of each ancestor and of the element.
AttrHidden(e) == StyleHides(e.style) \/ e.aria = "true" \/ e.hid

\* A mutant: the ancestors are not walked.
IsHiddenSelfOnly(d, n) == AttrHidden(d[n])

IsHidden(d, n) ==
  \/ \E a \in Ancestors(d, n) : d[a].tag = "template" \/ AttrHidden(d[a])
  \/ AttrHidden(d[n])

(***************************************************************************)
(* _visible_texts                                                          *)
(***************************************************************************)

\* The tree after the first loop of _visible_texts, which takes the script,
\* style, noscript and iframe subtrees out of the tree it is given.
AfterStrip(d, L) == Without(d, L, {"script", "style", "noscript", "iframe"})

\* A mutant: the hidden test of the fragments is left out.
VisibleTextsUnfiltered(d, L) ==
  LET keep(n) == /\ n \in AfterStrip(d, L)
                 /\ d[n].tag \notin {"script", "style", "template"}
                 /\ Strip(d[n].text) # <<>>
      ns == SelectSeq(Ids(d), keep)
  IN  [i \in 1..Len(ns) |-> [el |-> ns[i], txt |-> Strip(d[ns[i]].text)]]

\* The list _visible_texts returns: (parent, stripped text) of every text node
\* left, in document order.
VisibleTexts(d, L) ==
  LET keep(n) == /\ n \in AfterStrip(d, L)
                 /\ d[n].tag \notin {"script", "style", "template"}
                 /\ Strip(d[n].text) # <<>>
                 /\ ~IsHidden(d, n)
      ns == SelectSeq(Ids(d), keep)
  IN  [i \in 1..Len(ns) |-> [el |-> ns[i], txt |-> Strip(d[ns[i]].text)]]

(***************************************************************************)
(* extract_socials                                                         *)
(***************************************************************************)

SOCIAL_DOMAINS ==
  <<"linkedin.com", "facebook.com", "instagram.com", "twitter.com", "x.com",
    "youtube.com", "github.com", "behance.net", "t.me", "wa.me">>

\* The final URL of the page: the base the hrefs are resolved against.
BaseUrl == <<"https", ":", "//", "site.test">>

\* urljoin(base_url, href): an href with a scheme stands as it is, a path is
\* put behind the base's scheme and host.
UrlJoin(base, href) ==
  IF Len(href) >= 2 /\ href[2] = ":" THEN href ELSE base \o href

\* The loop over SOCIAL_DOMAINS from the k-th domain on: TRUE when it appends.
RECURSIVE DomLoop(_, _)
DomLoop(hl, k) ==
  IF k > Len(SOCIAL_DOMAINS) THEN FALSE
  ELSE IF Contains(hl, <<SOCIAL_DOMAINS[k]>>)
       THEN IF StartsWith(hl, <<"javascript", ":">>)
            THEN DomLoop(hl, k + 1)
            ELSE TRUE
       ELSE DomLoop(hl, k + 1)

\* The list found: the resolved href of every anchor the loop appends.
SocialsFound(d, L, base) ==
  LET as == SelectSeq(FindAll(d, L, "a"),
                      LAMBDA a : d[a].href # <<>> /\ DomLoop(LowerSeq(d[a].href), 1))
  IN  [i \in 1..Len(as) |-> UrlJoin(base, d[as[i]].href)]

RECURSIVE DedupeLoop(_, _, _)
DedupeLoop(s, seen, out) ==
  IF s = <<>> THEN out
  ELSE IF Head(s) \in seen
       THEN DedupeLoop(Tail(s), seen, out)
       ELSE DedupeLoop(Tail(s), seen \cup {Head(s)}, Append(out, Head(s)))

\* A mutant: the list found is returned as it is.
NoDedupe(s) == s

\* "dedupe while preserving order"
Dedupe(s) == DedupeLoop(s, {}, <<>>)

SocialsOf(d, L, base) == Dedupe(SocialsFound(d, L, base))

(***************************************************************************)
(* extract_emails                                                          *)
(***************************************************************************)

\* The tokens EMAIL_RE matches (each of them whole).
IsEmailTok(t) == t \in {"a@b.co", "x@y.org"}

\* EMAIL_RE.match(addr): a match at the start of addr.
EmailMatch(addr) == addr # <<>> /\ IsEmailTok(addr[1])

\* The addresses of the mailto: anchors that are not hidden.
MailtoAddrs(d, L) ==
  LET as == {a \in L : /\ d[a].tag = "a"
                       /\ StartsWith(LowerSeq(d[a].href), <<"mailto", ":">>)
                       /\ EmailMatch(Strip(AfterScheme(d[a].href)))
                       /\ ~IsHidden(d, a)}
  IN  {Strip(AfterScheme(d[a].href)) : a \in as}

\* EMAIL_RE.findall over the visible fragments.
TextEmails(texts) ==
  UNION {{<<texts[i].txt[j]>> : j \in {k \in 1..Len(texts[i].txt) :
                                          IsEmailTok(texts[i].txt[k])}} :
         i \in 1..Len(texts)}

\* The order of Python's str on the tokens an address is made of.
TokRank(t) == CASE t = "a@b.co" -> 1 [] t = "x@y.org" -> 2 [] OTHER -> 0

RECURSIVE StrLess(_, _)
StrLess(a, b) ==
  IF a = <<>> THEN b # <<>>
  ELSE IF b = <<>> THEN FALSE
  ELSE IF Head(a) = Head(b) THEN StrLess(Tail(a), Tail(b))
  ELSE TokRank(Head(a)) < TokRank(Head(b))

\* sorted(S)
RECURSIVE Sorted(_)
Sorted(S) ==
  IF S = {} THEN <<>>
  ELSE LET m == CHOOSE x \in S : \A y \in S \ {x} : StrLess(x, y)
       IN  <<m>> \o Sorted(S \ {m})

EmailsOf(d, L) == Sorted(MailtoAddrs(d, L) \cup TextEmails(VisibleTexts(d, L)))

(***************************************************************************)
(* extract_phones and _normalize_phone                                     *)
(***************************************************************************)

\* The tokens PHONE_RE matches (each of them whole).
IsPhoneTok(t) ==
  t \in {"+14155552671", "98765-43210", "+999-99-99", "12-34-56", "1------2"}

\* The digits of a token: re.sub(r"\D", "", t).
TokDigits(t) ==
  CASE t = "+14155552671" -> "14155552671"
    [] t = "98765-43210" -> "9876543210"
    [] t = "+999-99-99" -> "9999999"
    [] t = "12-34-56" -> "123456"
    [] t = "1------2" -> "12"
    [] OTHER -> ""

\* len(TokDigits(t))
TokDigitCount(t) ==
  CASE t = "+14155552671" -> 11
    [] t = "98765-43210" -> 10
    [] t = "+999-99-99" -> 7
    [] t = "12-34-56" -> 6
    [] t = "1------2" -> 2
    [] OTHER -> 0

RECURSIVE DigitCount(_)
DigitCount(s) == IF s = <<>> THEN 0 ELSE TokDigitCount(Head(s)) + DigitCount(Tail(s))

\* re.sub(r"\D", "", s)
DigitsOnly(s) ==
  LET ds == SelectSeq(s, LAMBDA t : TokDigits(t) # "")
  IN  [i \in 1..Len(ds) |-> TokDigits(ds[i])]

\* phonenumbers: parse (region None for a leading +, else IN), and the E.164
\* form when the number is possible; <<>> when parsing raises or it is not.
LibE164(s) ==
  CASE s = <<"+14155552671">> -> <<"+14155552671">>
    [] s = <<"98765-43210">> -> <<"+919876543210">>
    [] OTHER -> <<>>

NormalizePhone(num) ==
  LET s == Strip(num)
  IN  IF LibE164(s) # <<>> THEN LibE164(s) ELSE DigitsOnly(s)

\* The set seen: the originals of the entries appended so far.
Originals(ps) == {ps[i].original : i \in 1..Len(ps)}

Entry(num) == [original |-> num, normalized |-> NormalizePhone(num)]

\* The loop over the tel: anchors.
RECURSIVE TelLoop(_, _, _)
TelLoop(d, as, acc) ==
  IF as = <<>> THEN acc
  ELSE LET a == Head(as)
           num == AfterScheme(d[a].href)
       IN  IF \/ ~StartsWith(LowerSeq(d[a].href), <<"tel", ":">>)
              \/ IsHidden(d, a)
              \/ num \in Originals(acc)
           THEN TelLoop(d, Tail(as), acc)
           ELSE TelLoop(d, Tail(as), Append(acc, Entry(num)))

\* PHONE_RE.findall(txt): the matches of a fragment, left to right.
PhoneMatches(txt) == SelectSeq(txt, IsPhoneTok)

\* A mutant: the i-th pass of the loop takes the i-th match.
MatchOfPass(txt, i) == <<PhoneMatches(txt)[i]>>

\* The number the i-th pass of "for m in PHONE_RE.findall(txt)" works on:
\* PHONE_RE.search(txt).group(0).strip(), whatever i is.
MatchAt(txt, i) == Strip(<<PhoneMatches(txt)[1]>>)

\* The passes i..Len(findall) of the loop over one fragment's matches.
RECURSIVE MatchLoop(_, _, _, _)
MatchLoop(d, frag, i, acc) ==
  IF i > Len(PhoneMatches(frag.txt)) THEN acc
  ELSE LET num == MatchAt(frag.txt, i)
       IN  IF \/ DigitCount(num) < 7
              \/ num \in Originals(acc)
              \/ IsHidden(d, frag.el)
           THEN MatchLoop(d, frag, i + 1, acc)
           ELSE MatchLoop(d, frag, i + 1, Append(acc, Entry(num)))

\* The loop over the visible fragments.
RECURSIVE TextLoop(_, _, _)
TextLoop(d, texts, acc) ==
  IF texts = <<>> THEN acc
  ELSE TextLoop(d, Tail(texts), MatchLoop(d, Head(texts), 1, acc))

PhonesOf(d, L) ==
  TextLoop(d, VisibleTexts(d, L), TelLoop(d, FindAll(d, L, "a"), <<>>))

(***************************************************************************)
(* extract_name_candidates                                                 *)
(***************************************************************************)

\* A word of sixty characters.
LongWord == "Lorem-ipsum-dolor-sit-amet-consectetur-adipiscing-elit-sed-d"

\* len(t)
TokLen(t) ==
  CASE t \in {"Jane", "Acme", "Site"} -> 4
    [] t = "Doe" -> 3
    [] t = "Secret" -> 6
    [] t = "a@b.co" -> 6
    [] t = "x@y.org" -> 7
    [] t = "98765-43210" -> 11
    [] t = LongWord -> 60
    [] OTHER -> 1

RECURSIVE TextLen(_)
TextLen(s) == IF s = <<>> THEN 0 ELSE TokLen(Head(s)) + TextLen(Tail(s))

\* sep.join(parts)
RECURSIVE Join(_, _)
Join(parts, sep) ==
  IF parts = <<>> THEN <<>>
  ELSE IF Len(parts) = 1 THEN Head(parts)
  ELSE Head(parts) \o <<sep>> \o Join(Tail(parts), sep)

\* ' '.join(name.split())
Normalize(name) ==
  LET ws == SelectSeq(name, LAMBDA t : ~IsSpace(t))
  IN  Join([i \in 1..Len(ws) |-> <<ws[i]>>], " ")

\* el.get_text(separator=' ', strip=True): the stripped, non-empty strings of
\* the element and of all below it, joined with a blank.
GetText(d, L, n) ==
  LET ns == SelectSeq(Ids(d), LAMBDA m : /\ m \in L
                                         /\ m \in Subtree(d, n)
                                         /\ Strip(d[m].text) # <<>>)
  IN  Join([i \in 1..Len(ns) |-> Strip(d[ns[i]].text)], " ")

\* add_candidate
Cand(name, conf, reason) ==
  [name |-> Strip(name), confidence |-> conf, reason |-> reason]

\* 1. meta author
MetaCands(d, L) ==
  LET ms == SelectSeq(FindAll(d, L, "meta"), LAMBDA m : d[m].nameattr = "author")
  IN  IF ms # <<>> /\ d[Head(ms)].content # <<>>
      THEN <<Cand(d[Head(ms)].content, 90, <<"meta[name=author]">>)>>
      ELSE <<>>

\* re.split(r"[|\-...]\s*", title)[0]
FirstPart(title) ==
  LET seps == {i \in 1..Len(title) : title[i] \in {"|", "-"}}
  IN  IF seps = {} THEN title
      ELSE SubSeq(title, 1, (CHOOSE i \in seps : \A j \in seps : i <= j) - 1)

\* 2. page title
TitleCands(d, L) ==
  LET ts == FindAll(d, L, "title")
  IN  IF ts # <<>> /\ d[Head(ts)].text # <<>>
      THEN <<Cand(FirstPart(d[Head(ts)].text), 50, <<"title (first part)">>)>>
      ELSE <<>>

\* contact_nodes: the parents of the mailto: and tel: anchors (0 is the root).
ContactNodes(d, L) ==
  {d[a].parent : a \in {b \in L : /\ d[b].tag = "a"
                                  /\ \/ StartsWith(LowerSeq(d[b].href), <<"mailto", ":">>)
                                     \/ StartsWith(LowerSeq(d[b].href), <<"tel", ":">>)}}

\* cn == h.parent or cn in h.parents or h in cn.parents, for some contact node
Boosted(d, L, h) ==
  \E cn \in ContactNodes(d, L) :
     \/ cn = d[h].parent
     \/ cn \in Ancestors(d, h) \cup {0}
     \/ cn # 0 /\ h \in Ancestors(d, cn)

Min(a, b) == IF a <= b THEN a ELSE b

\* The candidate of one heading, if it yields one.
HeadingCand(d, L, h) ==
  LET tag == d[h].tag
      text == GetText(d, L, h)
      base == IF tag = "h1" THEN 70 ELSE 60
  IN  IF IsHidden(d, h) \/ text = <<>> THEN <<>>
      ELSE IF Boosted(d, L, h)
           THEN <<Cand(text, Min(95, base + 25), <<tag, " near contact">>)>>
           ELSE <<Cand(text, base, <<tag>>)>>

\* 3. headings: all h1 first, then all h2, h3, h4, each in document order.
HeadingCands(d, L) ==
  LET tags == <<"h1", "h2", "h3", "h4">>
      of(tag) == LET hs == FindAll(d, L, tag)
                 IN  Concat([i \in 1..Len(hs) |-> HeadingCand(d, L, hs[i])])
  IN  Concat([k \in 1..Len(tags) |-> of(tags[k])])

\* re.compile(k, re.I) searched in a class or id value.
KeyMatches(k, v) ==
  CASE v = "author" -> k = "author"
    [] v = "Author-Name" -> k \in {"author", "name"}
    [] v = "contact-box" -> k = "contact"
    [] v = "ceo" -> k = "ceo"
    [] OTHER -> FALSE

\* The candidate of one element matched by class or by id, if it yields one.
KeyCand(d, L, el, conf, reason) ==
  LET text == GetText(d, L, el)
  IN  IF IsHidden(d, el) \/ text = <<>> \/ ~(TextLen(text) < 60) THEN <<>>
      ELSE <<Cand(text, conf, reason)>>

\* 4. class/id keywords: per keyword, the class matches, then the id matches.
KeyCands(d, L) ==
  LET keys == <<"name", "author", "contact", "founder", "ceo", "person">>
      byClass(k) ==
        LET es == SelectSeq(Ids(d), LAMBDA n : n \in L /\ KeyMatches(k, d[n].cls))
        IN  Concat([i \in 1..Len(es) |->
                      KeyCand(d, L, es[i], 75, <<"class contains ", k>>)])
      byId(k) ==
        LET es == SelectSeq(Ids(d), LAMBDA n : n \in L /\ KeyMatches(k, d[n].idattr))
        IN  Concat([i \in 1..Len(es) |->
                      KeyCand(d, L, es[i], 80, <<"id contains ", k>>)])
  IN  Concat([j \in 1..Len(keys) |-> byClass(keys[j]) \o byId(keys[j])])

\* The raw candidates, in the order the passes append them.
RawCands(d, L) ==
  MetaCands(d, L) \o TitleCands(d, L) \o HeadingCands(d, L) \o KeyCands(d, L)

\* A mutant: ascending confidence.
InsertAscending(s, c) ==
  LET k == Cardinality({i \in 1..Len(s) : s[i].confidence <= c.confidence})
  IN  SubSeq(s, 1, k) \o <<c>> \o SubSeq(s, k + 1, Len(s))

\* One step of the stable sort by descending confidence: c goes behind
\* every entry whose confidence is not lower.
InsertByConf(s, c) ==
  LET k == Cardinality({i \in 1..Len(s) : s[i].confidence >= c.confidence})
  IN  SubSeq(s, 1, k) \o <<c>> \o SubSeq(s, k + 1, Len(s))

\* sorted(candidates, key=lambda x: -x['confidence'])
RECURSIVE SortLoop(_, _)
SortLoop(cs, out) ==
  IF cs = <<>> THEN out ELSE SortLoop(Tail(cs), InsertByConf(out, Head(cs)))

SortByConf(cs) == SortLoop(cs, <<>>)

\* "dedupe by normalized name"
RECURSIVE NameDedupeLoop(_, _, _)
NameDedupeLoop(cs, seen, out) ==
  IF cs = <<>> THEN out
  ELSE LET n == Normalize(Head(cs).name)
       IN  IF n = <<>> \/ n \in seen
           THEN NameDedupeLoop(Tail(cs), seen, out)
           ELSE NameDedupeLoop(Tail(cs), seen \cup {n}, Append(out, Head(cs)))

NamesOf(d, L) == NameDedupeLoop(SortByConf(RawCands(d, L)), {}, <<>>)

(***************************************************************************)
(* crawl_url                                                               *)
(***************************************************************************)

\* A mutant: the templates stay in the tree.
TemplatesKept(d, L) == L

\* "remove templates early": every template subtree is taken out.
TemplatesRemoved(d, L) == Without(d, L, {"template"})

NoContactNote ==
  "no contact items found (page may be JS-heavy or require interaction)"

\* A mutant: a page with name candidates gets no note.
NotesWithNames(es, ps, ss, ns) ==
  IF es = <<>> /\ ps = <<>> /\ ss = <<>> /\ ns = <<>> THEN <<NoContactNote>> ELSE <<>>

\* notes, from the emails, phones, socials (and names) found.
NotesOf(es, ps, ss, ns) ==
  IF es = <<>> /\ ps = <<>> /\ ss = <<>> THEN <<NoContactNote>> ELSE <<>>

\* The record crawl_url returns.
Result ==
  [url |-> BaseUrl, socials |-> socials, emails |-> emails, phones |-> phones,
   name_candidates |-> names, notes |-> notes]

NoResult ==
  [url |-> BaseUrl, socials |-> <<>>, emails |-> <<>>, phones |-> <<>>,
   name_candidates |-> <<>>, notes |-> <<>>]

RemoveTemplates ==
  /\ pc = "templates"
  /\ live' = TemplatesRemoved(doc, live)
  /\ pc' = "socials"
  /\ UNCHANGED <<doc, run, socials, emails, phones, names, notes, first>>

ExtractSocials ==
  /\ pc = "socials"
  /\ socials' = SocialsOf(doc, live, BaseUrl)
  /\ pc' = "emails"
  /\ UNCHANGED <<doc, live, run, emails, phones, names, notes, first>>

\* extract_emails reads the anchors, then calls _visible_texts, which strips
\* the tree it is given.
ExtractEmails ==
  /\ pc = "emails"
  /\ emails' = EmailsOf(doc, live)
  /\ live' = AfterStrip(doc, live)
  /\ pc' = "phones"
  /\ UNCHANGED <<doc, run, socials, phones, names, notes, first>>

ExtractPhones ==
  /\ pc = "phones"
  /\ phones' = PhonesOf(doc, live)
  /\ live' = AfterStrip(doc, live)
  /\ pc' = "names"
  /\ UNCHANGED <<doc, run, socials, emails, names, notes, first>>

ExtractNames ==
  /\ pc = "names"
  /\ names' = NamesOf(doc, live)
  /\ pc' = "notes"
  /\ UNCHANGED <<doc, live, run, socials, emails, phones, notes, first>>

Aggregate ==
  /\ pc = "notes"
  /\ notes' = NotesOf(emails, phones, socials, names)
  /\ pc' = "done"
  /\ UNCHANGED <<doc, live, run, socials, emails, phones, names, first>>

\* The four extractors are run once more on the tree the first run left.
ExtractAgain ==
  /\ pc = "done"
  /\ run = 1
  /\ first' = Result
  /\ run' = 2
  /\ pc' = "socials"
  /\ UNCHANGED <<doc, live, socials, emails, phones, names, notes>>

Next ==
  \/ RemoveTemplates
  \/ ExtractSocials
  \/ ExtractEmails
  \/ ExtractPhones
  \/ ExtractNames
  \/ Aggregate

NextTwice ==
  \/ Next
  \/ ExtractAgain

(***************************************************************************)
(* Documents                                                               *)
(***************************************************************************)

\* The greatest number of elements of a document.
MaxNodes == 3

\* An element without attribute or text.
El(tag) ==
  [tag |-> tag, parent |-> 0, hid |-> FALSE, aria |-> "", style |-> <<>>,
   href |-> <<>>, cls |-> "", idattr |-> "", nameattr |-> "", content |-> <<>>,
   text |-> <<>>]

RECURSIVE ShapeAncestors(_, _)
ShapeAncestors(p, i) ==
  IF p[i] = 0 THEN {} ELSE {p[i]} \cup ShapeAncestors(p, p[i])

\* The parent vectors of the trees of n elements numbered in document order.
Shapes(n) ==
  {p \in [1..n -> 0..(n - 1)] :
     \A i \in 1..n : /\ p[i] < i
                     /\ i > 1 => p[i] \in {0, i - 1} \cup ShapeAncestors(p, i - 1)}

\* The parser gives these elements no element child.
Childless == {"meta", "title", "script"}

\* The document of the elements k[1], k[2], ... under the parent vector p.
DocOf(p, k) == [i \in 1..Len(k) |-> [k[i] EXCEPT !.parent = p[i]]]

\* No childless element has a child.
Parsed(d) ==
  \A i \in 1..Len(d) :
     IF d[i].parent = 0 THEN TRUE ELSE d[d[i].parent].tag \notin Childless

\* The state crawl_url starts in, on any document of at most n elements, each
\* of one of the kinds.
InitOn(kinds, n) ==
  /\ \E m \in 1..n : \E p \in Shapes(m) : \E k \in [1..m -> kinds] :
        /\ doc = DocOf(p, k)
        /\ Parsed(doc)
  /\ live = 1..Len(doc)
  /\ pc = "templates"
  /\ run = 1
  /\ socials = <<>>
  /\ emails = <<>>
  /\ phones = <<>>
  /\ names = <<>>
  /\ notes = <<>>
  /\ first = NoResult

(***************************************************************************)
(* Hidden content: emails and phones                                       *)
(***************************************************************************)

MailAnchor ==
  [El("a") EXCEPT !.href = <<"mailto", ":", "a@b.co">>, !.text = <<"x@y.org">>]

TelAnchor ==
  [El("a") EXCEPT !.href = <<"tel", ":", "+14155552671">>,
                  !.text = <<"98765-43210">>]

KindsHidden ==
  {El("div"),
   [El("div") EXCEPT !.hid = TRUE],
   [El("div") EXCEPT !.aria = "true"],
   [El("div") EXCEPT !.style = <<"display", ":", "none">>],
   MailAnchor,
   [El("a") EXCEPT !.href = <<"MAILTO", ":", " ", "a@b.co", "?", "subject=hi">>,
                   !.text = <<"x@y.org">>, !.aria = "true"],
   TelAnchor}

SpecHidden == InitOn(KindsHidden, MaxNodes) /\ [][Next]_vars

\* Hidden as the claims have it: the element or an ancestor of it has
\* style="display:none", the hidden attribute or aria-hidden="true".
MarkedHidden(e) == e.style = <<"display", ":", "none">> \/ e.hid \/ e.aria = "true"

InHidden(d, n) ==
  MarkedHidden(d[n]) \/ \E a \in Ancestors(d, n) : MarkedHidden(d[a])

HasScheme(e, scheme) == e.tag = "a" /\ StartsWith(LowerSeq(e.href), <<scheme, ":">>)

\* C2: no entry of emails or of phones comes from a text fragment whose
\* element, or an ancestor of it, is hidden, nor from a hidden mailto: or
\* tel: anchor: every entry has a source that is not hidden.
C2_HiddenExcluded ==
  /\ \A i \in 1..Len(emails) :
       \E n \in 1..Len(doc) :
          /\ ~InHidden(doc, n)
          /\ \/ /\ HasScheme(doc[n], "mailto")
                /\ emails[i] = Strip(AfterScheme(doc[n].href))
             \/ \E j \in 1..Len(doc[n].text) : emails[i] = <<doc[n].text[j]>>
  /\ \A i \in 1..Len(phones) :
       \E n \in 1..Len(doc) :
          /\ ~InHidden(doc, n)
          /\ \/ HasScheme(doc[n], "tel") /\ phones[i].original = AfterScheme(doc[n].href)
             \/ \E j \in 1..Len(doc[n].text) : phones[i].original = <<doc[n].text[j]>>

\* A page whose only addresses are in hidden elements and whose phone
\* numbers are visible: the run ends with phones and without emails.
C2_Witness ==
  /\ pc = "done"
  /\ emails = <<>>
  /\ phones # <<>>
  /\ \E n \in 1..Len(doc) :
        /\ HasScheme(doc[n], "mailto")
        /\ \E a \in Ancestors(doc, n) : MarkedHidden(doc[a])

(***************************************************************************)
(* Templates, and the note of the empty page                               *)
(***************************************************************************)

SocialAnchor ==
  [El("a") EXCEPT !.href = <<"https", ":", "//", "linkedin.com", "/in/jane">>,
                  !.text = <<"Jane">>]

AuthorHeading == [El("h1") EXCEPT !.text = <<"Doe">>, !.idattr = "author"]

KindsTemplate ==
  {El("template"), El("div"), SocialAnchor, MailAnchor, TelAnchor, AuthorHeading}

SpecTemplate == InitOn(KindsTemplate, MaxNodes) /\ [][Next]_vars

\* In a <template> subtree of the document as parsed.
InTemplate(d, n) ==
  d[n].tag = "template" \/ \E a \in Ancestors(d, n) : d[a].tag = "template"

\* The tokens of an element's text and attribute values.
TokensOf(e) ==
  {e.text[j] : j \in 1..Len(e.text)} \cup {e.content[j] : j \in 1..Len(e.content)}

\* C4: nothing that occurs only inside <template> subtrees appears in
\* socials, emails, phones or name_candidates: every entry (for a name, every
\* word of it) is found in an element outside all templates.
C4_TemplateExcluded ==
  LET outside == {n \in 1..Len(doc) : ~InTemplate(doc, n)}
  IN  /\ \A i \in 1..Len(socials) :
           \E n \in outside :
              doc[n].tag = "a" /\ socials[i] = UrlJoin(BaseUrl, doc[n].href)
      /\ \A i \in 1..Len(emails) :
           \E n \in outside :
              \/ HasScheme(doc[n], "mailto") /\ emails[i] = AfterScheme(doc[n].href)
              \/ \E j \in 1..Len(doc[n].text) : emails[i] = <<doc[n].text[j]>>
      /\ \A i \in 1..Len(phones) :
           \E n \in outside :
              \/ HasScheme(doc[n], "tel") /\ phones[i].original = AfterScheme(doc[n].href)
              \/ \E j \in 1..Len(doc[n].text) : phones[i].original = <<doc[n].text[j]>>
      /\ \A i \in 1..Len(names) :
           \A j \in 1..Len(names[i].name) :
              \/ IsSpace(names[i].name[j])
              \/ \E n \in outside : names[i].name[j] \in TokensOf(doc[n])

\* A page with a social link inside a template and a heading outside: the
\* run ends with the heading's name and without the link.
C4_Witness ==
  /\ pc = "done"
  /\ socials = <<>>
  /\ names # <<>>
  /\ \E n \in 1..Len(doc) : doc[n] = [SocialAnchor EXCEPT !.parent = n - 1]
                            /\ n > 1 /\ doc[n - 1].tag = "template"

\* C7: the record has the note exactly when emails, phones and socials are
\* all empty, and no note otherwise, whatever the name candidates are.
C7_EmptyPageNote ==
  pc = "done" =>
    /\ (emails = <<>> /\ phones = <<>> /\ socials = <<>>) => notes = <<NoContactNote>>
    /\ ~(emails = <<>> /\ phones = <<>> /\ socials = <<>>) => notes = <<>>

\* A page with a name and no contact item: the note is there.
C7_Witness ==
  /\ pc = "done"
  /\ names # <<>>
  /\ emails = <<>> /\ phones = <<>> /\ socials = <<>>
  /\ notes = <<NoContactNote>>

(***************************************************************************)
(* Name candidates: deduplication and ranking                              *)
(***************************************************************************)

KindsNames ==
  {[El("meta") EXCEPT !.nameattr = "author", !.content = <<"Jane", " ", "Doe">>],
   [El("title") EXCEPT !.text = <<"Jane", " ", " ", "Doe", " ", "|", " ", "Site">>],
   [El("h1") EXCEPT !.text = <<"Jane", "\t", "Doe">>],
   [El("h2") EXCEPT !.text = <<"Acme">>, !.cls = "Author-Name"],
   [El("div") EXCEPT !.idattr = "author"],
   MailAnchor}

SpecNames == InitOn(KindsNames, MaxNodes) /\ [][Next]_vars

\* The raw candidates of the same normalized name as raw[r].
SameName(raw, r) ==
  {q \in 1..Len(raw) : Normalize(raw[q].name) = Normalize(raw[r].name)}

\* raw[r] is the first of the candidates of highest confidence for its name.
Winner(raw, r) ==
  \A q \in SameName(raw, r) :
     \/ raw[q].confidence < raw[r].confidence
     \/ raw[q].confidence = raw[r].confidence /\ r <= q

\* C5: in name_candidates (1) the confidences do not increase along the list,
\* (2) no two entries have the same whitespace-collapsed name and none has an
\* empty one, (3) each name with a raw candidate has an entry, and the entry
\* is the raw candidate of highest confidence for the name, the earliest one
\* in pass order among equals.
C5_NameRanking ==
  pc \in {"notes", "done"} =>
    LET raw == RawCands(doc, live)
    IN  /\ \A i, j \in 1..Len(names) :
             i < j => names[i].confidence >= names[j].confidence
        /\ \A i, j \in 1..Len(names) :
             i # j => Normalize(names[i].name) # Normalize(names[j].name)
        /\ \A i \in 1..Len(names) : Normalize(names[i].name) # <<>>
        /\ \A i \in 1..Len(names) :
             \E r \in 1..Len(raw) : raw[r] = names[i] /\ Winner(raw, r)
        /\ \A r \in 1..Len(raw) :
             Normalize(raw[r].name) # <<>> =>
               \E i \in 1..Len(names) :
                  Normalize(names[i].name) = Normalize(raw[r].name)

\* A meta author and an h1 of the same name (written with other blanks), and
\* a third candidate of another name: the meta author's entry comes first and
\* the h1's is dropped.
C5_Witness ==
  /\ pc = "done"
  /\ Len(names) = 2
  /\ names[1].reason = <<"meta[name=author]">>
  /\ names[1].confidence = 90
  /\ \E r \in 1..Len(RawCands(doc, live)) :
        /\ RawCands(doc, live)[r].reason = <<"h1">>
        /\ RawCands(doc, live)[r].name # names[1].name
        /\ Normalize(RawCands(doc, live)[r].name) = Normalize(names[1].name)

(***************************************************************************)
(* Social links                                                            *)
(***************************************************************************)

Anchor(href) == [El("a") EXCEPT !.href = href]

KindsSocial ==
  {Anchor(<<"/", "linkedin.com", "/in/jane">>),
   Anchor(<<"https", ":", "//", "site.test", "/", "linkedin.com", "/in/jane">>),
   Anchor(<<"https", ":", "//", "facebook.com", "/jane">>),
   Anchor(<<"JavaScript", ":", "open('", "x.com", "')">>),
   [Anchor(<<"https", ":", "//", "LinkedIn.com", "/in/jane">>) EXCEPT !.hid = TRUE],
   Anchor(<<"https", ":", "//", "example.org">>),
   El("a")}

SpecSocial == InitOn(KindsSocial, MaxNodes) /\ [][Next]_vars

\* An anchor whose href is non-empty, does not start with javascript: and
\* holds, lower-cased, a social domain.
SocialAnchorAt(d, n) ==
  /\ d[n].tag = "a"
  /\ d[n].href # <<>>
  /\ ~StartsWith(LowerSeq(d[n].href), <<"javascript", ":">>)
  /\ \E k \in 1..Len(SOCIAL_DOMAINS) :
        \E j \in 1..Len(d[n].href) : Lower(d[n].href[j]) = SOCIAL_DOMAINS[k]

\* The first anchor that resolves to u.
FirstAnchorOf(d, u) ==
  CHOOSE n \in 1..Len(d) :
     /\ SocialAnchorAt(d, n) /\ UrlJoin(BaseUrl, d[n].href) = u
     /\ \A m \in 1..(n - 1) :
          ~(SocialAnchorAt(d, m) /\ UrlJoin(BaseUrl, d[m].href) = u)

Para(text) == [El("p") EXCEPT !.text = text]

KindsPhones ==
  {Anchor(<<"tel", ":", "+14155552671">>),
   Anchor(<<"Tel", ":", "98765-43210", "?", "x">>),
   Para(<<"98765-43210", " ", "or", " ", "+14155552671">>),
   Para(<<"1------2", " ", "or", " ", "+999-99-99">>),
   Para(<<" ", "+999-99-99", " ", "or", " ", "12-34-56">>),
   [El("div") EXCEPT !.hid = TRUE]}

SpecPhones == InitOn(KindsPhones, MaxNodes) /\ [][Next]_vars

\* The numbers of the tel: anchors that are not hidden.
TelNumbers(d, L) ==
  {AfterScheme(d[a].href) : a \in {b \in L : HasScheme(d[b], "tel") /\ ~IsHidden(d, b)}}

\* The leftmost match of PHONE_RE in a fragment that has one.
Leftmost(frag) == <<PhoneMatches(frag.txt)[1]>>

\* C10: no two entries of phones share an original; every entry is the
\* number of a tel: anchor or the leftmost match of a visible fragment, of at
\* least 7 digits; the leftmost match of every visible fragment is there when
\* it has 7 digits; and the entries are no more than the tel: numbers and
\* the fragments with a match (each fragment gives at most one).
C10_PhonesFromText ==
  pc \in {"names", "notes", "done"} =>
    LET texts == VisibleTexts(doc, live)
        frags == {i \in 1..Len(texts) : PhoneMatches(texts[i].txt) # <<>>}
        tels == TelNumbers(doc, live)
    IN  /\ \A i, j \in 1..Len(phones) :
             i # j => phones[i].original # phones[j].original
        /\ \A i \in 1..Len(phones) :
             \/ phones[i].original \in tels
             \/ \E f \in frags : /\ phones[i].original = Leftmost(texts[f])
                                 /\ DigitCount(Leftmost(texts[f])) >= 7
        /\ \A f \in frags :
             DigitCount(Leftmost(texts[f])) >= 7 =>
               Leftmost(texts[f]) \in Originals(phones)
        /\ Len(phones) <= Cardinality(tels) + Cardinality(frags)

\* A fragment with two numbers of enough digits: the first is reported, the
\* second is not.
C10_Witness ==
  /\ pc = "done"
  /\ \E n \in 1..Len(doc) :
        /\ Len(PhoneMatches(doc[n].text)) = 2
        /\ DigitCount(<<PhoneMatches(doc[n].text)[2]>>) >= 7
        /\ <<PhoneMatches(doc[n].text)[1]>> \in Originals(phones)
        /\ <<PhoneMatches(doc[n].text)[2]>> \notin Originals(phones)

(***************************************************************************)
(* Two runs on one tree; hidden text in names; _is_hidden; the boost       *)
(***************************************************************************)

KindsOther ==
  {[El("h1") EXCEPT !.text = <<"Jane">>],
   [El("span") EXCEPT !.hid = TRUE, !.text = <<"Secret">>],
   El("p"),
   MailAnchor,
   El("noscript"),
   SocialAnchor,
   [Para(<<"x@y.org">>) EXCEPT !.style = <<"display", ":", "\t", "none">>],
   [Para(<<"a@b.co">>) EXCEPT !.style = <<"color", ":", "red", ";", " ", "DISPLAY", ":", " ", "None">>],
   [El("div") EXCEPT !.cls = "ceo", !.text = <<LongWord>>],
   El("template")}

SpecOther == InitOn(KindsOther, MaxNodes) /\ [][NextTwice]_vars

\* C1: the four extractors, run twice in a row on one parsed tree, give the
\* same record both times.
C1_Idempotent == (pc = "done" /\ run = 2) => Result = first

\* C3: no name candidate holds text of a fragment that lies inside a hidden
\* element: every word of every name is in the text of an element that is
\* not hidden.
C3_NamesHiddenExcluded ==
  \A i \in 1..Len(names) :
     \A j \in 1..Len(names[i].name) :
        \/ IsSpace(names[i].name[j])
        \/ \E n \in 1..Len(doc) : /\ ~InHidden(doc, n)
                                  /\ names[i].name[j] \in TokensOf(doc[n])

\* All whitespace: blanks, tabs, line breaks.
IsWhitespace(t) == t \in {" ", "\t", "\n"}

\* Hidden as 4.2 of the specification has it, for the element itself.
SpecMarked(e) ==
  \/ e.hid
  \/ e.aria = "true"
  \/ Contains(LowerSeq(SelectSeq(e.style, LAMBDA t : ~IsWhitespace(t))),
              <<"display", ":", "none">>)
  \/ e.tag = "template"

\* C8: _is_hidden is true exactly of a node that, itself or by an ancestor,
\* has hidden, aria-hidden="true", a style holding display:none once all
\* whitespace is removed and it is lower-cased, or is a <template>.
C8_IsHidden ==
  \A n \in 1..Len(doc) :
     IsHidden(doc, n) <=>
       (SpecMarked(doc[n]) \/ \E a \in Ancestors(doc, n) : SpecMarked(doc[a]))

\* The heading's containing element (0: the root) is a contact node, an
\* ancestor of one or a descendant of one.
NearContact(d, L, h) ==
  LET c == d[h].parent
  IN  \E cn \in ContactNodes(d, L) :
         \/ c = cn
         \/ cn # 0 /\ c \in Ancestors(d, cn) \cup {0}
         \/ c # 0 /\ cn \in Ancestors(d, c) \cup {0}

\* C9: a heading that is not hidden and has text gets min(0.95, base + 0.25)
\* and "<tag> near contact" exactly when its containing element is a contact
\* node or an ancestor or a descendant of one, and its base confidence and
\* "<tag>" otherwise.
C9_HeadingBoost ==
  pc = "names" =>
    \A h \in live :
       (doc[h].tag \in {"h1", "h2", "h3", "h4"} /\ ~IsHidden(doc, h) /\ GetText(doc, live, h) # <<>>) =>
          LET base == IF doc[h].tag = "h1" THEN 70 ELSE 60
              text == GetText(doc, live, h)
          IN  HeadingCand(doc, live, h) =
                IF NearContact(doc, live, h)
                THEN <<Cand(text, Min(95, base + 25), <<doc[h].tag, " near contact">>)>>
                ELSE <<Cand(text, base, <<doc[h].tag>>)>>

====
